---- MODULE Spec2Model ----
(***************************************************************************)
(* A state-machine model of the Game class of parkourPro                   *)
(* (src/unnamed/part_000): the frame scheduler, the player and projectile  *)
(* sub-step, the projectile pool and throw, the shockwave list, pause and  *)
(* resume, level completion, the touch timers and destroy(); and of the    *)
(* frame loop of MenuBackground (src/menuBackground.js).                   *)
(*                                                                         *)
(* Fixed point.  Lengths are integers in units of 5 mm (200 per metre),    *)
(* velocities in units per second, wall time (performance.now) and the     *)
(* throw timer in milliseconds, a sub-step delta in microseconds, a        *)
(* shockwave life in millionths, exponentials in ten-thousandths.          *)
(* Vectors are triples <<x, y, z>>.  Camera rotations are counted in       *)
(* quarter turns, so every view direction of the model is an axis.         *)
(***************************************************************************)
EXTENDS Integers, Sequences, FiniteSets, TLC

\* ------------------------------------------------------------ bounds
\* How long each specification lets the wall clock run: a play session and
\* a projectile flight in steps of 20 ms, a fall out of the level in frames
\* of 60 ms, a session of the level configured without a ball limit and a
\* visit of the menu page in steps of 20 ms, a run to the completion
\* platform in frames of 600 ms, the life of a shockwave in frames that come
\* every 60 ms.
SessionSteps == 4
FlightSteps == 8
FallFrames == 60
NoLimitSteps == 1
MenuSteps == 4
RunFrames == 136

ShockFrames == 20

\* How many frame times of the run the game may stay paused around its
\* first frame.
RunPauseTicks == 2

\* The wall times (ms) at which the clocks stop; construction is at 1 ms.
MaxNow == 1 + 20 * SessionSteps

FlightNow == 1 + 20 * FlightSteps

FallNow == 1 + 60 * FallFrames

ConfigNow == 1 + 20 * NoLimitSteps

MenuNow == 1 + 20 * MenuSteps

RunNow == 1 + 600 * RunFrames

ShockNow == 1 + 60 * ShockFrames

\* How many frames the menu background renders.
MenuFrames == 4

\* Capacity of the projectile pool in the level configurations explored.
BallLimit == 2

\* ------------------------------------------------- program constants
SPHERE_RADIUS == 40
STEPS_PER_FRAME == 5
throwCooldown == 30
DefaultGravity == 5000
DefaultBallLimit == 100
DefaultPlayerSpeed == 19000
DefaultAirControl == 3600
MaxFrameDelta == 50
ParkY == -20000
OobY == -5000
JumpSpeed == 4000
TouchJumpSpeed == 2400
ShockwaveNearSpeed == 300
ShockwaveLaunchSpeed == 5000
ShockwaveNearDist == 400
ShockwaveRate == 12
ShockwaveReach == 1200
ShockwaveBand == 200
MenuMaxDelta == 33333

\* null, for the fields that otherwise hold a time.
NULL == -1

\* ------------------------------------------------------ vector algebra
Zero3 == <<0, 0, 0>>

VAdd(a, b) == <<a[1] + b[1], a[2] + b[2], a[3] + b[3]>>

VSub(a, b) == <<a[1] - b[1], a[2] - b[2], a[3] - b[3]>>

VScale(a, k) == <<a[1] * k, a[2] * k, a[3] * k>>

\* Division of a fixed-point product, rounding toward zero as a float
\* multiply followed by truncation would.
QuoT(n, d) == IF n >= 0 THEN n \div d ELSE -((-n) \div d)

VQuo(a, d) == <<QuoT(a[1], d), QuoT(a[2], d), QuoT(a[3], d)>>

\* a + v * num / den
addScaledVector(a, v, num, den) == VAdd(a, VQuo(VScale(v, num), den))

Dot(a, b) == a[1] * b[1] + a[2] * b[2] + a[3] * b[3]

Cross(a, b) ==
  <<a[2] * b[3] - a[3] * b[2], a[3] * b[1] - a[1] * b[3], a[1] * b[2] - a[2] * b[1]>>

distanceToSquared(a, b) == Dot(VSub(a, b), VSub(a, b))

RECURSIVE SqrtFrom(_, _)
SqrtFrom(n, r) == IF (r + 1) * (r + 1) > n THEN r ELSE SqrtFrom(n, r + 1)

RECURSIVE SqrtCoarse(_, _)
SqrtCoarse(n, r) == IF (r + 64) * (r + 64) > n THEN SqrtFrom(n, r) ELSE SqrtCoarse(n, r + 64)

\* floor(sqrt(n))
ISqrt(n) == SqrtCoarse(n, 0)

\* Unit normals are scaled by 1000.  Vector3.normalize divides by
\* (length || 1), so the zero vector stays zero.
\* Faulty variant of normalize: the zero vector becomes the up vector.
normalizeZeroToUp(v) ==
  LET len == ISqrt(Dot(v, v))
  IN  IF len = 0 THEN <<0, 1000, 0>> ELSE VQuo(VScale(v, 1000), len)

normalize(v) ==
  LET len == ISqrt(Dot(v, v))
  IN  IF len = 0 THEN Zero3 ELSE VQuo(VScale(v, 1000), len)

\* ------------------------------------------------------- exponentials
\* e^(-x), x >= 0, both in ten-thousandths.
RECURSIVE ExpNeg(_)
ExpNeg(x) ==
  IF x > 2500
  THEN LET h == ExpNeg(x \div 2) IN (h * h) \div 10000
  ELSE LET t2 == (x * x) \div 10000
           t3 == (t2 * x) \div 10000
           t4 == (t3 * x) \div 10000
       IN  10000 - x + (t2 \div 2) - (t3 \div 6) + (t4 \div 24)

\* JavaScript truthiness of a field that holds null or a number.
Truthy(x) == x # NULL /\ x # 0

Min(a, b) == IF a < b THEN a ELSE b

Max(a, b) == IF a > b THEN a ELSE b

\* ------------------------------------------------------------- state
VARIABLES
  config,          \* the level configuration handed to the constructor
  world,           \* the static level geometry behind worldOctree
  now,             \* performance.now(), ms
  game,            \* the fields of the Game instance ("this")
  pointerLock,     \* document.pointerLockElement !== null
  listening,       \* the DOM listeners of initControls are registered
  jumpInterval,    \* closure variable of initTouchControls
  throwHoldTimer,  \* closure variable of initTouchControls
  pc,              \* position inside animate(): "idle", "loop" or "tail"
  deltaTime,       \* animate's local deltaTime, microseconds
  stepI,           \* animate's loop counter i
  hist,            \* history kept for the claims, never read by the program
  menu,            \* the fields of the MenuBackground instance
  rafPending       \* ids of the animation-frame callbacks requested and not yet run

vars ==
  <<config, world, now, game, pointerLock, listening, jumpInterval,
    throwHoldTimer, pc, deltaTime, stepI, hist, menu, rafPending>>

\* ------------------------------------------------------ configuration
\* config.x || d : 0 stands for both "absent" and the number 0, which the
\* operator || treats alike.
OrDefault(x, d) == IF x = 0 THEN d ELSE x

Orientations == {<<0, 0>>, <<0, 1>>, <<1, 0>>}

\* Camera.getWorldDirection for a rotation <<x, y>> in quarter turns.
getWorldDirection(rot) ==
  IF rot[1] = 1 THEN <<0, 1000, 0>>
  ELSE IF rot[1] = -1 THEN <<0, -1000, 0>>
  ELSE IF rot[2] = 1 THEN <<-1000, 0, 0>>
  ELSE <<0, 0, -1000>>

CameraUp == <<0, 1, 0>>

CanonicalCapsule == [start |-> <<0, 100, 0>>, end |-> <<0, 330, 0>>, radius |-> 70]

\* One pool slot as initSpheres creates it (hasExploded is absent, hence
\* falsy, until updateSpheres sets it).
ParkedSphere ==
  [center |-> <<0, ParkY, 0>>, radius |-> SPHERE_RADIUS, velocity |-> Zero3,
   hasExploded |-> FALSE]

initSpheres(n) == [i \in 1..n |-> ParkedSphere]

NewClock == [autoStart |-> TRUE, running |-> FALSE, oldTime |-> 0]

\* The constructor.
NewGame(cfg) ==
  [ GRAVITY |-> OrDefault(cfg.gravity, DefaultGravity),
    NUM_SPHERES |-> OrDefault(cfg.ballLimit, DefaultBallLimit),
    playerSpeed |-> DefaultPlayerSpeed,
    airControl |-> DefaultAirControl,
    throwTimer |-> 0,
    ballsThrown |-> 0,
    useBalls |-> IF cfg.useBalls # "undefined" THEN cfg.useBalls = "true" ELSE TRUE,
    levelNumber |-> OrDefault(cfg.levelNumber, 1),
    camera |-> [position |-> Zero3, rotation |-> cfg.playerLookAt],
    clock |-> NewClock,
    startTime |-> NULL,
    pausedTime |-> 0,
    pauseStartTime |-> NULL,
    completionTime |-> NULL,
    levelCompleted |-> FALSE,
    deathCount |-> 0,
    playerCollider |-> CanonicalCapsule,
    playerVelocity |-> Zero3,
    playerOnFloor |-> FALSE,
    mouseTime |-> 0,
    keyStates |-> {},
    joystickDX |-> 0,
    joystickDY |-> 0,
    spheres |-> initSpheres(OrDefault(cfg.ballLimit, DefaultBallLimit)),
    sphereIdx |-> 0,
    shockwaves |-> <<>>,
    isPaused |-> FALSE,
    walkingSound |-> [loaded |-> TRUE, playing |-> FALSE],
    isWalkingSoundPlaying |-> FALSE ]

\* ------------------------------------------------------- THREE.Clock
\* Clock.getDelta at wall time t: <<the clock after the call, the delta in ms>>.
getDelta(c, t) ==
  IF c.autoStart /\ ~c.running
  THEN <<[c EXCEPT !.running = TRUE, !.oldTime = t], 0>>
  ELSE IF c.running
       THEN <<[c EXCEPT !.oldTime = t], t - c.oldTime>>
       ELSE <<c, 0>>

\* Clock.stop (getElapsedTime, then running = false, autoStart = false).
clockStop(c, t) == [getDelta(c, t)[1] EXCEPT !.running = FALSE, !.autoStart = FALSE]

\* Clock.start
clockStart(c, t) == [c EXCEPT !.running = TRUE, !.oldTime = t]

\* ------------------------------------------------------ walking sound
unloadWalkingSound(g) ==
  IF g.walkingSound.loaded
  THEN [g EXCEPT !.walkingSound = [loaded |-> FALSE, playing |-> FALSE],
                 !.isWalkingSoundPlaying = FALSE]
  ELSE g

\* ----------------------------------------------------- pause / resume
\* Faulty variant of pause: a repeated pause() stamps pauseStartTime again.
pauseRestamps(g, t) ==
  LET g1 == [g EXCEPT !.isPaused = TRUE, !.clock = clockStop(g.clock, t)]
      g2 == IF g1.isWalkingSoundPlaying /\ g1.walkingSound.loaded
            THEN [g1 EXCEPT !.walkingSound.playing = FALSE]
            ELSE g1
  IN  IF Truthy(g2.startTime) /\ ~g2.levelCompleted
      THEN [g2 EXCEPT !.pauseStartTime = t]
      ELSE g2

pause(g, t) ==
  LET g1 == [g EXCEPT !.isPaused = TRUE, !.clock = clockStop(g.clock, t)]
      g2 == IF g1.isWalkingSoundPlaying /\ g1.walkingSound.loaded
            THEN [g1 EXCEPT !.walkingSound.playing = FALSE]
            ELSE g1
  IN  IF Truthy(g2.startTime) /\ ~Truthy(g2.pauseStartTime)
         /\ ~g2.levelCompleted
      THEN [g2 EXCEPT !.pauseStartTime = t]
      ELSE g2

\* pause() dereferences walkingSound when the flag is set: a TypeError if it
\* was unloaded.  unloadWalkingSound clears the flag, so the two never meet.
pauseThrows(g) == g.isWalkingSoundPlaying /\ ~g.walkingSound.loaded

resume(g, t) ==
  LET g1 == [g EXCEPT !.isPaused = FALSE, !.clock = clockStart(g.clock, t)]
  IN  IF Truthy(g1.pauseStartTime) /\ ~g1.levelCompleted
      THEN [g1 EXCEPT !.pausedTime = g1.pausedTime + (t - g1.pauseStartTime),
                      !.pauseStartTime = NULL]
      ELSE g1

\* ------------------------------------------------------------- throw
\* 15 + 30 * (1 - exp((mouseTime - now) * 0.001)), in units per second.
impulse(mouseTime, t) ==
  3000 + (6000 * (10000 - ExpNeg((t - mouseTime) * 10))) \div 10000

\* Faulty variant of throwRejected: the ball limit is not checked.
throwRejectedNoCap(g) ==
  \/ ~g.useBalls
  \/ g.throwTimer > 0

throwRejected(g) ==
  \/ ~g.useBalls
  \/ g.throwTimer > 0
  \/ g.ballsThrown >= g.NUM_SPHERES

\* spheres[sphereIdx] is undefined: reading sphere.collider raises a TypeError.
throwThrows(g) == ~throwRejected(g) /\ (g.sphereIdx + 1) \notin DOMAIN g.spheres

throwBall(g, t) ==
  IF throwRejected(g) \/ throwThrows(g) THEN g
  ELSE
    LET dir == getWorldDirection(g.camera.rotation)
        c == addScaledVector(g.playerCollider.end, dir,
                             (g.playerCollider.radius * 3) \div 2, 1000)
        v == VAdd(VQuo(VScale(dir, impulse(g.mouseTime, t)), 1000),
                  VScale(g.playerVelocity, 2))
        k == g.sphereIdx + 1
    IN  [g EXCEPT !.spheres[k].center = c,
                  !.spheres[k].velocity = v,
                  !.sphereIdx = (g.sphereIdx + 1) % Len(g.spheres),
                  !.ballsThrown = g.ballsThrown + 1,
                  !.throwTimer = throwCooldown]

\* ------------------------------------------------------- world index
\* The level geometry is external.  The model explores two levels: one
\* unbounded horizontal floor at height world.floorY, and no geometry at
\* all.  A query returns NoContact or [normal, depth], the normal scaled by
\* 1000; Octree returns the total displacement, so a contact of depth 0
\* carries the zero normal.
NoContact == [hit |-> FALSE, normal |-> Zero3, depth |-> 0]

Contact(depth) ==
  [hit |-> TRUE, normal |-> IF depth = 0 THEN Zero3 ELSE <<0, 1000, 0>>, depth |-> depth]

Abs(x) == IF x < 0 THEN -x ELSE x

\* Octree.capsuleIntersect (triangleCapsuleIntersect on the floor plane).
capsuleIntersect(w, capsule) ==
  IF ~w.hasFloor THEN NoContact
  ELSE LET d1 == capsule.start[2] - w.floorY - capsule.radius
           d2 == capsule.end[2] - w.floorY - capsule.radius
       IN  IF (d1 > 0 /\ d2 > 0) \/ (d1 < -capsule.radius /\ d2 < -capsule.radius)
           THEN NoContact
           ELSE Contact(Abs(Min(d1, d2)))

\* Octree.sphereIntersect (triangleSphereIntersect on the floor plane).
sphereIntersect(w, sphere) ==
  IF ~w.hasFloor THEN NoContact
  ELSE LET dist == sphere.center[2] - w.floorY
       IN  IF Abs(dist) > sphere.radius THEN NoContact
           ELSE Contact(Abs(dist - sphere.radius))

\* ---------------------------------------------------------- shockwave
\* createShockwave(position).  The ring keeps one radius for its 40
\* samples (0.1 at creation); "by" records the slot that spawned it and is
\* never read by the program.
createShockwave(g, position, slot) ==
  LET near == distanceToSquared(g.playerCollider.end, position)
                < ShockwaveNearDist * ShockwaveNearDist
      g1 == IF near THEN [g EXCEPT !.playerVelocity[2] = ShockwaveNearSpeed] ELSE g
  IN  [g1 EXCEPT !.shockwaves =
         Append(g1.shockwaves,
                [life |-> 1000000, position |-> position, ringRadius |-> 20, by |-> slot])]

\* The ring radius (1 - life) * 6 of a shockwave of the given life.
ringRadiusOf(life) == QuoT((1000000 - life) * ShockwaveReach, 1000000)

\* dist < r && dist > r - 1, on squared distances.
inBand(d2, r) ==
  /\ r > 0 /\ d2 < r * r
  /\ (r - ShockwaveBand < 0 \/ d2 > (r - ShockwaveBand) * (r - ShockwaveBand))

\* Faulty variant of updateShockwave: a spent shockwave stays in the list.
updateShockwaveKept(g, i, dt) ==
  LET s == g.shockwaves[i]
      life == s.life - (dt * ShockwaveRate)
      r == ringRadiusOf(life)
      d2 == distanceToSquared(g.playerCollider.end, s.position)
      g1 == IF inBand(d2, r) THEN [g EXCEPT !.playerVelocity[2] = ShockwaveLaunchSpeed] ELSE g
  IN  [g1 EXCEPT !.shockwaves[i] = [s EXCEPT !.life = life, !.ringRadius = r]]

\* One iteration of the loop of updateShockwaves, for index i.
updateShockwave(g, i, dt) ==
  LET s == g.shockwaves[i]
      life == s.life - (dt * ShockwaveRate)
      r == ringRadiusOf(life)
      d2 == distanceToSquared(g.playerCollider.end, s.position)
      g1 == IF inBand(d2, r) THEN [g EXCEPT !.playerVelocity[2] = ShockwaveLaunchSpeed] ELSE g
      s1 == [s EXCEPT !.life = life, !.ringRadius = r]
  IN  IF life <= 0
      THEN [g1 EXCEPT !.shockwaves =
              SubSeq(g1.shockwaves, 1, i - 1) \o SubSeq(g1.shockwaves, i + 1, Len(g1.shockwaves))]
      ELSE [g1 EXCEPT !.shockwaves[i] = s1]

RECURSIVE updateShockwavesFrom(_, _, _)
updateShockwavesFrom(g, i, dt) ==
  IF i < 1 THEN g ELSE updateShockwavesFrom(updateShockwave(g, i, dt), i - 1, dt)

updateShockwaves(g, dt) == updateShockwavesFrom(g, Len(g.shockwaves), dt)

\* ------------------------------------------------------------- player
translate(capsule, d) ==
  [capsule EXCEPT !.start = VAdd(capsule.start, d), !.end = VAdd(capsule.end, d)]

playerCollisions(g, w) ==
  LET result == capsuleIntersect(w, g.playerCollider)
  IN  IF ~result.hit THEN [g EXCEPT !.playerOnFloor = FALSE]
      ELSE
        LET onFloor == result.normal[2] > 0
            v == IF onFloor THEN g.playerVelocity
                 ELSE addScaledVector(g.playerVelocity, result.normal,
                                      -QuoT(Dot(result.normal, g.playerVelocity), 1000), 1000)
            c == IF result.depth >= 1
                 THEN translate(g.playerCollider, VQuo(VScale(result.normal, result.depth), 1000))
                 ELSE g.playerCollider
        IN  [g EXCEPT !.playerOnFloor = onFloor, !.playerVelocity = v, !.playerCollider = c]

getForwardVector(g) ==
  LET d == getWorldDirection(g.camera.rotation) IN normalize(<<d[1], 0, d[3]>>)

getSideVector(g) == Cross(getForwardVector(g), CameraUp)

\* exp(-k * dt) - 1 in ten-thousandths; k100 is 100 k, dt in microseconds.
dampingOf(k100, dt) == ExpNeg((k100 * dt) \div 10000) - 10000

updatePlayer(g, w, dt) ==
  LET air == ~g.playerOnFloor
      damping == IF air THEN QuoT(dampingOf(2000, dt), 10) ELSE dampingOf(2000, dt)
      v0 == IF air
            THEN [g.playerVelocity EXCEPT ![2] = @ - QuoT(g.GRAVITY * dt, 1000000)]
            ELSE g.playerVelocity
      v1 == addScaledVector(v0, v0, damping, 10000)
      deltaPosition == VQuo(VScale(v1, dt), 1000000)
      g1 == playerCollisions([g EXCEPT !.playerVelocity = v1,
                                       !.playerCollider = translate(g.playerCollider, deltaPosition)],
                             w)
      forward == VQuo(VScale(getForwardVector(g1), 16), 1000)
      side == VQuo(VScale(getSideVector(g1), -6), 1000)
  IN  [g1 EXCEPT !.camera.position =
         VAdd(VAdd(VAdd(g1.playerCollider.end, forward), side), <<0, 18, 0>>)]

speedDeltaOf(g, dt) ==
  QuoT(dt * (IF g.playerOnFloor THEN g.playerSpeed ELSE g.airControl), 1000000)

controls(g, dt) ==
  LET sd == speedDeltaOf(g, dt)
      f == getForwardVector(g)
      s == getSideVector(g)
      v1 == IF "KeyW" \in g.keyStates THEN addScaledVector(g.playerVelocity, f, sd, 1000)
            ELSE g.playerVelocity
      v2 == IF "KeyS" \in g.keyStates THEN addScaledVector(v1, f, -sd, 1000) ELSE v1
      v3 == IF "KeyA" \in g.keyStates THEN addScaledVector(v2, s, -sd, 1000) ELSE v2
      v4 == IF "KeyD" \in g.keyStates THEN addScaledVector(v3, s, sd, 1000) ELSE v3
      v5 == IF g.playerOnFloor /\ "Space" \in g.keyStates
            THEN [v4 EXCEPT ![2] = JumpSpeed] ELSE v4
  IN  [g EXCEPT !.playerVelocity = v5]

joystickControls(g, dt) ==
  IF g.joystickDX # 0 \/ g.joystickDY # 0
  THEN LET sd == speedDeltaOf(g, dt)
           v1 == addScaledVector(g.playerVelocity, getForwardVector(g), -g.joystickDY * sd, 1000)
           v2 == addScaledVector(v1, getSideVector(g), g.joystickDX * sd, 1000)
       IN  [g EXCEPT !.playerVelocity = v2]
  ELSE g

teleportPlayerIfOob(g, cfg) ==
  IF g.camera.position[2] <= OobY
  THEN [g EXCEPT !.deathCount = @ + 1,
                 !.playerCollider = CanonicalCapsule,
                 !.camera = [position |-> CanonicalCapsule.end, rotation |-> cfg.playerLookAt]]
  ELSE g

\* -------------------------------------------------------- projectiles
\* The overlap test d2 < r2 of spheresCollisions.
overlapping(s1, s2) ==
  distanceToSquared(s1.center, s2.center) < (s1.radius + s2.radius) * (s1.radius + s2.radius)

\* Faulty variant of collidePair: the centres move by a quarter of the
\* penetration.
collidePairQuarter(ss, i, j) ==
  LET s1 == ss[i]
      s2 == ss[j]
      d2 == distanceToSquared(s1.center, s2.center)
      r == s1.radius + s2.radius
  IN  IF overlapping(s1, s2)
      THEN LET normal == normalize(VSub(s1.center, s2.center))
               v1 == VQuo(VScale(normal, QuoT(Dot(normal, s1.velocity), 1000)), 1000)
               v2 == VQuo(VScale(normal, QuoT(Dot(normal, s2.velocity), 1000)), 1000)
               d == QuoT(r - ISqrt(d2), 4)
           IN  [ss EXCEPT ![i].velocity = VSub(VAdd(s1.velocity, v2), v1),
                          ![j].velocity = VSub(VAdd(s2.velocity, v1), v2),
                          ![i].center = addScaledVector(s1.center, normal, d, 1000),
                          ![j].center = addScaledVector(s2.center, normal, -d, 1000)]
      ELSE ss

\* Faulty variant of collidePair: the second sphere keeps its velocity.
collidePairOneSided(ss, i, j) ==
  LET s1 == ss[i]
      s2 == ss[j]
      d2 == distanceToSquared(s1.center, s2.center)
      r == s1.radius + s2.radius
  IN  IF overlapping(s1, s2)
      THEN LET normal == normalize(VSub(s1.center, s2.center))
               v1 == VQuo(VScale(normal, QuoT(Dot(normal, s1.velocity), 1000)), 1000)
               v2 == VQuo(VScale(normal, QuoT(Dot(normal, s2.velocity), 1000)), 1000)
               d == QuoT(r - ISqrt(d2), 2)
           IN  [ss EXCEPT ![i].velocity = VSub(VAdd(s1.velocity, v2), v1),
                          ![i].center = addScaledVector(s1.center, normal, d, 1000),
                          ![j].center = addScaledVector(s2.center, normal, -d, 1000)]
      ELSE ss

\* The body of the inner loop of spheresCollisions for the pair (i, j).
collidePair(ss, i, j) ==
  LET s1 == ss[i]
      s2 == ss[j]
      d2 == distanceToSquared(s1.center, s2.center)
      r == s1.radius + s2.radius
  IN  IF overlapping(s1, s2)
      THEN LET normal == normalize(VSub(s1.center, s2.center))
               v1 == VQuo(VScale(normal, QuoT(Dot(normal, s1.velocity), 1000)), 1000)
               v2 == VQuo(VScale(normal, QuoT(Dot(normal, s2.velocity), 1000)), 1000)
               d == QuoT(r - ISqrt(d2), 2)
           IN  [ss EXCEPT ![i].velocity = VSub(VAdd(s1.velocity, v2), v1),
                          ![j].velocity = VSub(VAdd(s2.velocity, v1), v2),
                          ![i].center = addScaledVector(s1.center, normal, d, 1000),
                          ![j].center = addScaledVector(s2.center, normal, -d, 1000)]
      ELSE ss

RECURSIVE collideRow(_, _, _)
collideRow(ss, i, j) ==
  IF j > Len(ss) THEN ss ELSE collideRow(collidePair(ss, i, j), i, j + 1)

RECURSIVE collideFrom(_, _)
collideFrom(ss, i) ==
  IF i > Len(ss) THEN ss ELSE collideFrom(collideRow(ss, i, i + 1), i + 1)

spheresCollisions(g) == [g EXCEPT !.spheres = collideFrom(g.spheres, 1)]

\* One iteration of the loop of playerSphereCollision: a probe point against
\* slot k.  The result carries the scratch vector1 (in length units), which
\* the iteration overwrites with the normal when the probe overlaps.
probeSphere(p, k, point) ==
  LET g == p.g
      sphere == g.spheres[k]
      r == g.playerCollider.radius + sphere.radius
      d2 == distanceToSquared(point, sphere.center)
  IN  IF d2 < r * r
      THEN LET normal == normalize(VSub(point, sphere.center))
               v1 == VQuo(VScale(normal, QuoT(Dot(normal, g.playerVelocity), 1000)), 1000)
               v2 == VQuo(VScale(normal, QuoT(Dot(normal, sphere.velocity), 1000)), 1000)
               d == QuoT(r - ISqrt(d2), 2)
           IN  [g |-> [g EXCEPT !.playerVelocity = VSub(VAdd(g.playerVelocity, v2), v1),
                                !.spheres[k].velocity = VSub(VAdd(sphere.velocity, v1), v2),
                                !.spheres[k].center = addScaledVector(sphere.center, normal, -d, 1000)],
                vector1 |-> VQuo(normal, 5)]
      ELSE p

capsuleCenter(capsule) == VQuo(VAdd(capsule.start, capsule.end), 2)

\* playerSphereCollision(sphere) for slot k.  The third probe point is the
\* scratch vector1 itself.  The class defines the method and nothing calls it.
playerSphereCollision(g, k) ==
  LET c == g.playerCollider
      p0 == [g |-> g, vector1 |-> capsuleCenter(c)]
      p1 == probeSphere(p0, k, c.start)
      p2 == probeSphere(p1, k, c.end)
  IN  probeSphere(p2, k, p2.vector1).g

\* Faulty variant of updateSphere: a contact does not mark the projectile
\* as exploded.
updateSphereUnmarked(g, w, k, dt) ==
  LET s0 == g.spheres[k]
      c1 == addScaledVector(s0.center, s0.velocity, dt, 1000000)
      s1 == [s0 EXCEPT !.center = c1]
      result == sphereIntersect(w, s1)
      g1 == IF result.hit /\ ~s0.hasExploded THEN createShockwave(g, c1, k) ELSE g
      s2 == IF result.hit
            THEN [s1 EXCEPT
                    !.velocity = addScaledVector(s1.velocity, result.normal,
                                   -QuoT(Dot(result.normal, s1.velocity) * 3, 2000), 1000),
                    !.center = VAdd(c1, VQuo(VScale(result.normal, result.depth), 1000))]
            ELSE [s1 EXCEPT !.velocity[2] = @ - QuoT(g.GRAVITY * dt, 1000000)]
      s3 == [s2 EXCEPT !.velocity = addScaledVector(s2.velocity, s2.velocity,
                                                    dampingOf(150, dt), 10000)]
  IN  [g1 EXCEPT !.spheres[k] = s3]

\* The callback of spheres.forEach in updateSpheres, for slot k.
updateSphere(g, w, k, dt) ==
  LET s0 == g.spheres[k]
      c1 == addScaledVector(s0.center, s0.velocity, dt, 1000000)
      s1 == [s0 EXCEPT !.center = c1]
      result == sphereIntersect(w, s1)
      g1 == IF result.hit /\ ~s0.hasExploded THEN createShockwave(g, c1, k) ELSE g
      s2 == IF result.hit
            THEN [s1 EXCEPT
                    !.hasExploded = TRUE,
                    !.velocity = addScaledVector(s1.velocity, result.normal,
                                   -QuoT(Dot(result.normal, s1.velocity) * 3, 2000), 1000),
                    !.center = VAdd(c1, VQuo(VScale(result.normal, result.depth), 1000))]
            ELSE [s1 EXCEPT !.velocity[2] = @ - QuoT(g.GRAVITY * dt, 1000000)]
      s3 == [s2 EXCEPT !.velocity = addScaledVector(s2.velocity, s2.velocity,
                                                    dampingOf(150, dt), 10000)]
  IN  [g1 EXCEPT !.spheres[k] = s3]

RECURSIVE updateSpheresFrom(_, _, _, _)
updateSpheresFrom(g, w, k, dt) ==
  IF k > Len(g.spheres) THEN g
  ELSE updateSpheresFrom(updateSphere(g, w, k, dt), w, k + 1, dt)

updateSpheres(g, w, dt) == spheresCollisions(updateSpheresFrom(g, w, 1, dt))

\* --------------------------------------------------- level completion
calculateStars(timeMs, deaths) ==
  (IF timeMs < 120000 THEN 1 ELSE 0) + (IF timeMs < 60000 THEN 1 ELSE 0)
    + (IF deaths < 5 THEN 1 ELSE 0)

\* performance.now() - startTime - pausedTime (null counts as 0), in ms.
elapsedTimeOf(g, t) == t - (IF g.startTime = NULL THEN 0 ELSE g.startTime) - g.pausedTime

completeLevel(g, t) ==
  LET g1 == unloadWalkingSound([g EXCEPT !.levelCompleted = TRUE])
  IN  pause([g1 EXCEPT !.completionTime = elapsedTimeOf(g1, t)], t)

PlatformPos == <<-6420, -1346, 32>>

PlatformReach == <<455, 330, 455>>

\* The overlap test of checkPlatformCollision.
insidePlatform(g) ==
  LET p == g.playerCollider.end
  IN  /\ Abs(p[1] - PlatformPos[1]) < PlatformReach[1]
      /\ Abs(p[2] - PlatformPos[2]) < PlatformReach[2]
      /\ Abs(p[3] - PlatformPos[3]) < PlatformReach[3]

\* Faulty variant of completionDue: a completed level is completed again.
completionDueUnlatched(g) == insidePlatform(g)

\* checkPlatformCollision calls completeLevel.
completionDue(g) == ~g.levelCompleted /\ insidePlatform(g)

checkPlatformCollision(g, t) == IF completionDue(g) THEN completeLevel(g, t) ELSE g

startTimer(g, t) == IF ~Truthy(g.startTime) THEN [g EXCEPT !.startTime = t] ELSE g

\* ------------------------------------------------------------ animate
\* One iteration of the sub-step loop of animate.
subStep(g, w, cfg, dt, t) ==
  LET g1 == updatePlayer(joystickControls(controls(g, dt), dt), w, dt)
      g2 == IF g1.useBalls THEN updateSpheres(g1, w, dt) ELSE g1
  IN  checkPlatformCollision(teleportPlayerIfOob(g2, cfg), t)

moving(g) ==
  \/ {"KeyW", "KeyA", "KeyS", "KeyD"} \cap g.keyStates # {}
  \/ g.joystickDX # 0
  \/ g.joystickDY # 0

\* walkingSound.play() on the unloaded (null) sound raises a TypeError, which
\* ends animate before the throw timer and the shockwaves are updated.
tailThrows(g) == moving(g) /\ g.playerOnFloor /\ ~g.isWalkingSoundPlaying /\ ~g.walkingSound.loaded

\* The statements of animate after the sub-step loop, at wall time t.
animateTail(g, dt, t) ==
  LET g1 == IF moving(g) THEN startTimer(g, t) ELSE g
      shouldPlay == moving(g1) /\ g1.playerOnFloor
  IN  IF tailThrows(g1) THEN g1
      ELSE
        LET g2 == IF shouldPlay /\ ~g1.isWalkingSoundPlaying
                  THEN [g1 EXCEPT !.walkingSound.playing = TRUE, !.isWalkingSoundPlaying = TRUE]
                  ELSE IF ~shouldPlay /\ g1.isWalkingSoundPlaying
                       THEN [g1 EXCEPT !.walkingSound.playing = FALSE,
                                       !.isWalkingSoundPlaying = FALSE]
                       ELSE g1
            d == getDelta(g2.clock, t)
            g3 == IF g2.useBalls
                  THEN [g2 EXCEPT !.clock = d[1], !.throwTimer = Max(0, g2.throwTimer - d[2])]
                  ELSE g2
        IN  updateShockwaves(g3, dt)

\* ------------------------------------------------------------ history
\* Per slot: throws, world contacts since the last throw and shockwaves
\* spawned since the last throw (each counted up to 2); per frame: the wall
\* time of this and of the previous call of animate, the raw clock delta and
\* the delta of each sub-step run; whether a handler raised an exception; the
\* sub-steps in which two thrown projectiles overlapped (counted up to 2); the
\* calls of completeLevel since the last resetTimer (counted up to 2) and the
\* arguments it passed to window.saveLevelStats, markLevelCompleted and
\* unlockLevel; the wall time spent paused since the timer started.
Slots(g) == DOMAIN g.spheres

Upto2(n) == Min(2, n)

NewHist(g) ==
  [ throws |-> [k \in Slots(g) |-> 0],
    contacts |-> [k \in Slots(g) |-> 0],
    spawned |-> [k \in Slots(g) |-> 0],
    frameAt |-> NULL,
    prevFrameAt |-> NULL,
    frameDelta |-> 0,
    stepDts |-> <<>>,
    threw |-> FALSE,
    resolved |-> 0,
    completions |-> 0,
    saved |-> {},
    marked |-> {},
    unlocked |-> {},
    pausedWall |-> 0 ]

\* The history after wall time d has passed between two frames with the
\* instance g: the time spent paused since the timer started.
histElapse(h, g, d) ==
  IF g.isPaused /\ Truthy(g.startTime) THEN [h EXCEPT !.pausedWall = @ + d] ELSE h

\* The history after a call of throwBall that took g to g2.
histThrow(h, g, g2) ==
  IF throwThrows(g) THEN [h EXCEPT !.threw = TRUE]
  ELSE IF g2.ballsThrown = g.ballsThrown THEN h
  ELSE LET k == g.sphereIdx + 1
       IN  [h EXCEPT !.throws[k] = Upto2(@ + 1), !.contacts[k] = 0, !.spawned[k] = 0]

\* The slots whose world query reports a contact in a sub-step from g.
hitSlots(g, w, dt) ==
  {k \in Slots(g) :
     sphereIntersect(w, [g.spheres[k] EXCEPT
        !.center = addScaledVector(g.spheres[k].center, g.spheres[k].velocity, dt, 1000000)]).hit}

newShockwaves(g, g2) == SubSeq(g2.shockwaves, Len(g.shockwaves) + 1, Len(g2.shockwaves))

\* The history after a call of completeLevel that left the instance as g2.
histComplete(h, g2) ==
  [h EXCEPT !.completions = Upto2(@ + 1),
            !.saved = @ \cup {[level |-> g2.levelNumber, time |-> g2.completionTime,
                               deaths |-> g2.deathCount,
                               stars |-> calculateStars(g2.completionTime, g2.deathCount)]},
            !.marked = @ \cup {g2.levelNumber},
            !.unlocked = @ \cup {g2.levelNumber + 1}]

\* g is the instance after updatePlayer, g2 at the end of the sub-step.
histStep(h0, g, g2, cfg, w, dt) ==
  LET hits == IF g.useBalls THEN hitSlots(g, w, dt) ELSE {}
      new == newShockwaves(g, g2)
      h == IF completionDue(teleportPlayerIfOob(g, cfg)) THEN histComplete(h0, g2) ELSE h0
      ss == updateSpheresFrom(g, w, 1, dt).spheres
      met == g.useBalls /\ \E i, j \in DOMAIN ss :
                             /\ i < j /\ h0.throws[i] > 0 /\ h0.throws[j] > 0
                             /\ overlapping(ss[i], ss[j])
  IN  [h EXCEPT
         !.resolved = IF met THEN Upto2(@ + 1) ELSE @,
         !.contacts = [k \in DOMAIN @ |-> IF k \in hits THEN Upto2(@[k] + 1) ELSE @[k]],
         !.spawned = [k \in DOMAIN @ |->
                        Upto2(@[k] + Cardinality({n \in DOMAIN new : new[n].by = k}))],
         !.stepDts = Append(@, dt)]

\* ------------------------------------------------------ MenuBackground
\* (src/menuBackground.js)  The constructor; "renders" counts the calls of
\* renderer.render, cameraTime is in microseconds.
NewMenu ==
  [isRunning |-> FALSE, animationId |-> NULL, clock |-> NewClock, cameraTime |-> 0,
   renders |-> 0, resizeListener |-> TRUE]

\* requestAnimationFrame hands out 1, 2, 3, ...; MenuBackground is the only
\* requester on the menu page and requests once per rendered frame.
nextFrameId(m) == m.renders + 1

\* MenuBackground.animate at wall time t: <<the instance, the pending ids>>.
menuAnimate(m, pending, t) ==
  IF ~m.isRunning THEN <<m, pending>>
  ELSE LET d == getDelta(m.clock, t)
           delta == Min(d[2] * 1000, MenuMaxDelta)
           id == nextFrameId(m)
       IN  <<[m EXCEPT !.clock = d[1], !.cameraTime = @ + delta, !.renders = @ + 1,
                       !.animationId = id],
             pending \cup {id}>>

menuStart(m, pending, t) ==
  IF m.isRunning THEN <<m, pending>>
  ELSE menuAnimate([m EXCEPT !.isRunning = TRUE, !.clock = clockStart(m.clock, t)], pending, t)

\* Faulty variant of menuStop: the pending frame is not cancelled.
menuStopNoCancel(m, pending, t) ==
  <<[m EXCEPT !.isRunning = FALSE, !.animationId = NULL, !.clock = clockStop(m.clock, t)],
    pending>>

menuStop(m, pending, t) ==
  <<[m EXCEPT !.isRunning = FALSE, !.animationId = NULL, !.clock = clockStop(m.clock, t)],
    IF Truthy(m.animationId) THEN pending \ {m.animationId} ELSE pending>>

menuDestroy(m, pending, t) ==
  LET r == menuStop(m, pending, t)
  IN  <<[r[1] EXCEPT !.resizeListener = FALSE], r[2]>>

\* -------------------------------------------------------------- inputs
Keys == {"KeyW", "Space"}

\* Wall time between two events, and the wall time one call of animate takes.
Deltas == {40}

FrameCosts == {20}

FallCosts == {60}

RunCosts == {600}

\* Level configurations: an absent gravity or level number is 0; the camera
\* looks straight down, or straight ahead.
Configs ==
  [gravity : {0}, ballLimit : {BallLimit}, useBalls : {"true", "false"}, levelNumber : {0},
   playerLookAt : {<<-1, 0>>}]

FallConfigs ==
  [gravity : {0}, ballLimit : {BallLimit}, useBalls : {"false"}, levelNumber : {0},
   playerLookAt : {<<0, 0>>}]

NoLimitConfigs ==
  [gravity : {0}, ballLimit : {0}, useBalls : {"true", "false"}, levelNumber : {0},
   playerLookAt : {<<-1, 0>>}]

\* Level geometry: a floor 0.2 m above the origin (the player spawns 5 cm
\* inside it and is pushed out by the first sub-step), and none.
FloorWorld == [hasFloor |-> TRUE, floorY |-> 40]

VoidWorld == [hasFloor |-> FALSE, floorY |-> 0]

\* A floor 8 m below the origin, on which the player stands level with the
\* completion platform.
PlatformWorld == [hasFloor |-> TRUE, floorY |-> -1600]

\* The camera looks along -x, toward the platform.
RunConfigs ==
  [gravity : {0}, ballLimit : {BallLimit}, useBalls : {"false"}, levelNumber : {0, 2},
   playerLookAt : {<<0, 1>>}]

InitWith(cfgs, worlds) ==
  /\ config \in cfgs
  /\ world \in worlds
  /\ now = 1
  /\ game = NewGame(config)
  /\ pointerLock = FALSE
  /\ listening = TRUE
  /\ jumpInterval = FALSE
  /\ throwHoldTimer = "null"
  /\ pc = "idle"
  /\ deltaTime = 0
  /\ stepI = 0
  /\ hist = NewHist(NewGame(config))
  /\ menu = NewMenu
  /\ rafPending = {}

Idle == pc = "idle"

env == <<config, world>>

menuVars == <<menu, rafPending>>

frameVars == <<pc, deltaTime, stepI>>

Tick(d, until) ==
  /\ Idle /\ now + d <= until
  /\ now' = now + d
  /\ hist' = histElapse(hist, game, d)
  /\ UNCHANGED <<env, menuVars, game, pointerLock, listening, jumpInterval, throwHoldTimer, frameVars>>

\* The keyboard, mouse-look and pointer-unlock handlers.  Only the run to
\* the platform uses the keyboard; the mouse look and the pointer unlock are
\* left out of the specifications below.
KeyDown(k) ==
  /\ Idle /\ listening
  /\ game' = [game EXCEPT !.keyStates = @ \cup {k}]
  /\ UNCHANGED <<env, menuVars, now, pointerLock, listening, jumpInterval, throwHoldTimer, frameVars, hist>>

KeyUp(k) ==
  /\ Idle /\ listening
  /\ game' = [game EXCEPT !.keyStates = @ \ {k}]
  /\ UNCHANGED <<env, menuVars, now, pointerLock, listening, jumpInterval, throwHoldTimer, frameVars, hist>>

MouseDown ==
  /\ Idle /\ listening
  /\ pointerLock' = TRUE
  /\ game' = [game EXCEPT !.mouseTime = now]
  /\ UNCHANGED <<env, menuVars, now, listening, jumpInterval, throwHoldTimer, frameVars, hist>>

\* The user leaves pointer lock (Escape).
PointerUnlock ==
  /\ Idle /\ pointerLock
  /\ pointerLock' = FALSE
  /\ UNCHANGED <<env, menuVars, now, game, listening, jumpInterval, throwHoldTimer, frameVars, hist>>

MouseUp ==
  /\ Idle /\ listening
  /\ game' = IF pointerLock THEN throwBall(game, now) ELSE game
  /\ hist' = IF pointerLock THEN histThrow(hist, game, game') ELSE hist
  /\ UNCHANGED <<env, menuVars, now, pointerLock, listening, jumpInterval, throwHoldTimer, frameVars>>

MouseMove(o) ==
  /\ Idle /\ listening /\ pointerLock
  /\ game' = [game EXCEPT !.camera.rotation = o]
  /\ UNCHANGED <<env, menuVars, now, pointerLock, listening, jumpInterval, throwHoldTimer, frameVars, hist>>

\* touchmove of the look touch (right half of the screen).
TouchMoveLook(o) ==
  /\ Idle /\ listening
  /\ game' = [game EXCEPT !.camera.rotation = o]
  /\ UNCHANGED <<env, menuVars, now, pointerLock, listening, jumpInterval, throwHoldTimer, frameVars, hist>>

jumpIfOnFloor(g) ==
  IF g.playerOnFloor THEN [g EXCEPT !.playerVelocity[2] = TouchJumpSpeed] ELSE g

TouchStartJump ==
  /\ Idle /\ listening
  /\ game' = jumpIfOnFloor(game)
  /\ jumpInterval' = TRUE
  /\ UNCHANGED <<env, menuVars, now, pointerLock, listening, throwHoldTimer, frameVars, hist>>

TouchEndJump ==
  /\ Idle /\ listening
  /\ jumpInterval' = FALSE
  /\ UNCHANGED <<env, menuVars, now, game, pointerLock, listening, throwHoldTimer, frameVars, hist>>

\* The setInterval callback.  The model does not track the 200 ms period: a
\* scheduled callback may run at any time.
JumpIntervalFire ==
  /\ Idle /\ jumpInterval
  /\ game' = jumpIfOnFloor(game)
  /\ UNCHANGED <<env, menuVars, now, pointerLock, listening, jumpInterval, throwHoldTimer, frameVars, hist>>

throwBallMobile(g, t) == throwBall([g EXCEPT !.mouseTime = t], t)

TouchStartThrow ==
  /\ Idle /\ listening
  /\ throwHoldTimer' = "pending"
  /\ UNCHANGED <<env, menuVars, now, game, pointerLock, listening, jumpInterval, frameVars, hist>>

TouchEndThrow ==
  /\ Idle /\ listening
  /\ IF throwHoldTimer # "null"
     THEN /\ game' = throwBallMobile(game, now)
          /\ hist' = histThrow(hist, game, game')
          /\ throwHoldTimer' = "null"
     ELSE UNCHANGED <<game, hist, throwHoldTimer>>
  /\ UNCHANGED <<env, menuVars, now, pointerLock, listening, jumpInterval, frameVars>>

\* The setTimeout callback (2000 ms, not tracked).  The timer id stays in
\* throwHoldTimer after the callback has run.
ThrowHoldFire ==
  /\ Idle /\ throwHoldTimer = "pending"
  /\ game' = throwBallMobile(game, now)
  /\ hist' = histThrow(hist, game, game')
  /\ throwHoldTimer' = "fired"
  /\ UNCHANGED <<env, menuVars, now, pointerLock, listening, jumpInterval, frameVars>>

Pause ==
  /\ Idle /\ listening
  /\ game' = pause(game, now)
  /\ UNCHANGED <<env, menuVars, now, pointerLock, listening, jumpInterval, throwHoldTimer, frameVars, hist>>

Resume ==
  /\ Idle /\ listening
  /\ game' = resume(game, now)
  /\ UNCHANGED <<env, menuVars, now, pointerLock, listening, jumpInterval, throwHoldTimer, frameVars, hist>>

resetTimer(g) ==
  [g EXCEPT !.startTime = NULL, !.pausedTime = 0, !.pauseStartTime = NULL,
            !.completionTime = NULL, !.levelCompleted = FALSE, !.deathCount = 0]

\* resetTimer() is called from outside the class (retry, next level).
ResetTimer ==
  /\ Idle /\ listening
  /\ game' = resetTimer(game)
  /\ hist' = [hist EXCEPT !.completions = 0, !.pausedWall = 0]
  /\ UNCHANGED <<env, menuVars, now, pointerLock, listening, jumpInterval, throwHoldTimer, frameVars>>

destroy(g) ==
  [unloadWalkingSound(g) EXCEPT !.spheres = <<>>, !.shockwaves = <<>>, !.keyStates = {}]

Destroy ==
  /\ Idle /\ listening
  /\ game' = destroy(game)
  /\ listening' = FALSE
  /\ UNCHANGED <<env, menuVars, now, pointerLock, jumpInterval, throwHoldTimer, frameVars, hist>>

\* Faulty variant of frameDeltaTime: the frame delta is not clamped.
frameDeltaTimeUnclamped(delta) == (delta * 1000) \div STEPS_PER_FRAME

\* Math.min(0.05, delta) / STEPS_PER_FRAME: ms to microseconds.
frameDeltaTime(delta) == (Min(MaxFrameDelta, delta) * 1000) \div STEPS_PER_FRAME

\* animate() up to the sub-step loop.  A call while paused returns at once.
AnimateStart ==
  /\ Idle /\ listening /\ ~game.isPaused
  /\ LET d == getDelta(game.clock, now)
     IN  /\ game' = [game EXCEPT !.clock = d[1]]
         /\ deltaTime' = frameDeltaTime(d[2])
         /\ hist' = [hist EXCEPT !.prevFrameAt = hist.frameAt, !.frameAt = now,
                                 !.frameDelta = d[2], !.stepDts = <<>>]
  /\ pc' = "loop"
  /\ stepI' = 0
  /\ UNCHANGED <<env, menuVars, now, pointerLock, listening, jumpInterval, throwHoldTimer>>

SubStep ==
  /\ pc = "loop" /\ stepI < STEPS_PER_FRAME
  /\ game' = subStep(game, world, config, deltaTime, now)
  /\ hist' = histStep(hist,
                      updatePlayer(joystickControls(controls(game, deltaTime), deltaTime),
                                   world, deltaTime),
                      game', config, world, deltaTime)
  /\ stepI' = stepI + 1
  /\ pc' = IF stepI + 1 < STEPS_PER_FRAME THEN "loop" ELSE "tail"
  /\ UNCHANGED <<env, menuVars, now, pointerLock, listening, jumpInterval, throwHoldTimer, deltaTime>>

\* The rest of animate(); c is the wall time the frame has taken so far.
AnimateTail(c, until) ==
  /\ pc = "tail" /\ now + c <= until
  /\ now' = now + c
  /\ game' = animateTail(game, deltaTime, now')
  /\ hist' = [hist EXCEPT !.threw = @ \/ tailThrows(IF moving(game) THEN startTimer(game, now') ELSE game)]
  /\ pc' = "idle"
  /\ UNCHANGED <<env, menuVars, pointerLock, listening, jumpInterval, throwHoldTimer, deltaTime, stepI>>

\* ------------------------------------------------ the menu page
gameVars ==
  <<game, pointerLock, listening, jumpInterval, throwHoldTimer, frameVars, hist>>

MenuStart ==
  /\ menu.renders < MenuFrames
  /\ LET r == menuStart(menu, rafPending, now)
     IN  menu' = r[1] /\ rafPending' = r[2]
  /\ UNCHANGED <<env, now, gameVars>>

MenuStop ==
  /\ LET r == menuStop(menu, rafPending, now)
     IN  menu' = r[1] /\ rafPending' = r[2]
  /\ UNCHANGED <<env, now, gameVars>>

MenuDestroy ==
  /\ LET r == menuDestroy(menu, rafPending, now)
     IN  menu' = r[1] /\ rafPending' = r[2]
  /\ UNCHANGED <<env, now, gameVars>>

\* The browser runs the pending animation-frame callback id.
MenuFrame(id) ==
  /\ id \in rafPending /\ menu.renders < MenuFrames
  /\ LET r == menuAnimate(menu, rafPending \ {id}, now)
     IN  menu' = r[1] /\ rafPending' = r[2]
  /\ UNCHANGED <<env, now, gameVars>>

\* A play session on the floor level: mouse and touch throws, touch jump,
\* pause and resume, destroy, the two touch timers.
Init == InitWith(Configs, {FloorWorld})

Next ==
  \/ \E d \in Deltas : Tick(d, MaxNow)
  \/ MouseDown
  \/ MouseUp
  \/ TouchStartJump
  \/ TouchEndJump
  \/ JumpIntervalFire
  \/ TouchStartThrow
  \/ TouchEndThrow
  \/ ThrowHoldFire
  \/ Pause
  \/ Resume
  \/ Destroy
  \/ AnimateStart
  \/ SubStep
  \/ \E c \in FrameCosts : AnimateTail(c, MaxNow)

Spec == Init /\ [][Next]_vars

\* The flight of thrown projectiles over the floor.
NextFlight ==
  \/ \E d \in Deltas : Tick(d, FlightNow)
  \/ TouchStartThrow
  \/ TouchEndThrow
  \/ ThrowHoldFire
  \/ AnimateStart
  \/ SubStep
  \/ \E c \in FrameCosts : AnimateTail(c, FlightNow)

SpecFlight == Init /\ [][NextFlight]_vars

\* A fall out of a level without geometry and without balls, the player
\* looking around; every frame takes 60 ms, so each sees the clamped delta.
InitFall == InitWith(FallConfigs, {VoidWorld})

NextFall ==
  \/ \E o \in Orientations : TouchMoveLook(o)
  \/ AnimateStart
  \/ SubStep
  \/ \E c \in FallCosts : AnimateTail(c, FallNow)

SpecFall == InitFall /\ [][NextFall]_vars

\* A session of the level configured with ballLimit 0.
InitNoLimit == InitWith(NoLimitConfigs, {FloorWorld})

NextNoLimit ==
  \/ TouchStartThrow
  \/ TouchEndThrow
  \/ AnimateStart
  \/ SubStep
  \/ \E c \in FrameCosts : AnimateTail(c, ConfigNow)

SpecNoLimit == InitNoLimit /\ [][NextNoLimit]_vars

\* The menu page: the background is started, stopped and destroyed while the
\* browser runs its frame callbacks.
NextMenu ==
  \/ \E d \in Deltas : Tick(d, MenuNow)
  \/ MenuStart
  \/ MenuStop
  \/ MenuDestroy
  \/ \E id \in rafPending : MenuFrame(id)

SpecMenu == Init /\ [][NextMenu]_vars

\* A run to the completion platform on a slow device (a frame takes 0.6 s):
\* the player holds W from the start; the game is paused and resumed around
\* the first frame, for up to RunPauseTicks frame times; once the level is
\* completed the key is released and pressed, the game paused, resumed and
\* its timer reset while wall time goes on.
InitRun == InitWith(RunConfigs, {PlatformWorld})

NextRun ==
  \/ hist.frameAt = NULL /\ KeyDown("KeyW")
  \/ game.levelCompleted /\ KeyDown("KeyW")
  \/ game.levelCompleted /\ KeyUp("KeyW")
  \/ (game.levelCompleted \/ hist.prevFrameAt = NULL) /\ Pause
  \/ (hist.completions > 0 \/ game.isPaused \/ hist.prevFrameAt = NULL) /\ Resume
  \/ game.isPaused /\ \E d \in RunCosts :
        (game.levelCompleted \/ now <= RunPauseTicks * d) /\ Tick(d, RunNow)
  \/ game.levelCompleted /\ ResetTimer
  \/ AnimateStart
  \/ SubStep
  \/ \E c \in RunCosts : AnimateTail(c, RunNow)

SpecRun == InitRun /\ [][NextRun]_vars

\* =============================================================== claims
\* Steps of the model named by the properties below.
TailStep == pc = "tail" /\ pc' = "idle"

LoopStep == pc = "loop"

\* A handler step that calls throwBall.
ThrowCall ==
  \/ MouseUp /\ pointerLock
  \/ TouchEndThrow /\ throwHoldTimer # "null"
  \/ ThrowHoldFire

\* The state throwBall may write.
PoolState(g) == <<g.spheres, g.sphereIdx, g.ballsThrown, g.throwTimer>>

\* The simulation state.
SimState(g) ==
  <<g.playerCollider, g.playerVelocity, g.spheres, g.sphereIdx, g.ballsThrown,
    g.throwTimer, g.shockwaves, g.deathCount>>

ChangedSlots == {k \in DOMAIN game.spheres : game'.spheres[k] # game.spheres[k]}

\* C1: a call of throwBall leaves the pool, sphereIdx, ballsThrown and
\* throwTimer untouched when balls are disabled, the cooldown is running or
\* ballsThrown has reached NUM_SPHERES; in every other state it repositions
\* exactly one slot, adds one to ballsThrown and sets throwTimer to the
\* cooldown.
C1_ThrowContract ==
  [][ThrowCall =>
       IF ~game.useBalls \/ game.throwTimer > 0 \/ game.ballsThrown >= game.NUM_SPHERES
       THEN PoolState(game') = PoolState(game)
       ELSE /\ DOMAIN game'.spheres = DOMAIN game.spheres
            /\ Cardinality(ChangedSlots) = 1
            /\ game'.ballsThrown = game.ballsThrown + 1
            /\ game'.throwTimer = throwCooldown]_vars

\* C1, on a live instance: the same contract for the calls made before
\* destroy().
C1_ThrowContractLive ==
  [][ThrowCall /\ listening =>
       IF ~game.useBalls \/ game.throwTimer > 0 \/ game.ballsThrown >= game.NUM_SPHERES
       THEN PoolState(game') = PoolState(game)
       ELSE /\ Cardinality(ChangedSlots) = 1
            /\ game'.ballsThrown = game.ballsThrown + 1
            /\ game'.throwTimer = throwCooldown]_vars

\* C3: between pause() and resume() no sub-step runs and the simulation
\* state does not change, whatever input events and timers arrive.
C3_PausedIsFrozen ==
  [][game.isPaused /\ game'.isPaused /\ listening' =>
       /\ SimState(game') = SimState(game)
       /\ ~LoopStep]_vars

\* C6: throwTimer is never negative, and a frame with balls enabled lowers it
\* by the wall time elapsed since the previous frame began, floored at 0.
C6_RealTimeCooldown ==
  [][/\ game'.throwTimer >= 0
     /\ TailStep /\ game.useBalls /\ hist.prevFrameAt # NULL =>
          game'.throwTimer = Max(0, game.throwTimer - (hist.frameAt - hist.prevFrameAt))]_vars

C10_FiveBoundedSteps ==
  /\ pc = "loop" => Len(hist.stepDts) = stepI /\ stepI < 5
  /\ pc = "tail" => Len(hist.stepDts) = 5
  /\ pc = "idle" => Len(hist.stepDts) \in {0, 5}
  /\ pc # "idle" => deltaTime = (Min(50, hist.frameDelta) * 1000) \div 5
  /\ \A i \in DOMAIN hist.stepDts :
        /\ hist.stepDts[i] = (Min(50, hist.frameDelta) * 1000) \div 5
        /\ hist.stepDts[i] >= 0 /\ hist.stepDts[i] <= 10000

\* C10 witness: a frame whose delta exceeded 0.05 s has run its five
\* sub-steps.
C10_ClampedFrameRan == pc = "tail" /\ hist.frameDelta > 50 /\ Len(hist.stepDts) = 5

\* C2: for every slot, the first world contact after its throw sets
\* hasExploded and adds exactly one shockwave; later contacts add none.
C2_FirstContactExplodesOnce ==
  \A k \in DOMAIN game.spheres :
    /\ hist.spawned[k] = Min(1, hist.contacts[k])
    /\ game.spheres[k].hasExploded = (hist.contacts[k] >= 1)

\* C2 witness: a thrown projectile has touched the world twice and spawned
\* one shockwave.
C2_SecondContactSilent ==
  \E k \in DOMAIN game.spheres :
    /\ hist.throws[k] = 1 /\ hist.contacts[k] = 2 /\ hist.spawned[k] = 1
    /\ game.spheres[k].hasExploded

\* The sub-step the projectile section of the specification describes:
\* every projectile is also resolved against the player.
RECURSIVE updateSpheresResolvedFrom(_, _, _, _)
updateSpheresResolvedFrom(g, w, k, dt) ==
  IF k > Len(g.spheres) THEN g
  ELSE updateSpheresResolvedFrom(playerSphereCollision(updateSphere(g, w, k, dt), k),
                                 w, k + 1, dt)

subStepResolved(g, w, cfg, dt, t) ==
  LET g1 == updatePlayer(joystickControls(controls(g, dt), dt), w, dt)
      g2 == IF g1.useBalls THEN spheresCollisions(updateSpheresResolvedFrom(g1, w, 1, dt))
            ELSE g1
  IN  checkPlatformCollision(teleportPlayerIfOob(g2, cfg), t)

\* C4: in every sub-step with balls enabled, each projectile within the
\* summed radii of a probe point of the player capsule gets the
\* sphere-player resolution.
C4_PlayerSphereResolution ==
  [][LoopStep /\ game.useBalls =>
       game' = subStepResolved(game, world, config, deltaTime, now)]_vars

\* C7: each frame lowers the life of every shockwave by 12 times the clamped
\* frame delta and drops those whose life reaches 0, keeping the order.
shockwaveLives(g) == [i \in DOMAIN g.shockwaves |-> g.shockwaves[i].life]

isAlive(life) == life > 0

C7_FrameDeltaDecay ==
  [][TailStep =>
       shockwaveLives(game') =
         SelectSeq([i \in DOMAIN game.shockwaves |->
                      game.shockwaves[i].life
                        - ShockwaveRate * 1000 * Min(MaxFrameDelta, hist.frameDelta)],
                   isAlive)]_vars

\* C5: a sub-step in which the out-of-bounds check fires adds one death,
\* puts the capsule in its canonical pose, zeroes the player velocity and
\* turns the camera to the configured look-at.
C5_OobResetsPlayer ==
  [][LoopStep /\ game'.deathCount # game.deathCount =>
       /\ game'.deathCount = game.deathCount + 1
       /\ game'.playerCollider = CanonicalCapsule
       /\ game'.playerVelocity = Zero3
       /\ game'.camera.rotation = config.playerLookAt]_vars

\* C8: the pool has ballLimit slots, and with ballLimit 0 no throw is ever
\* accepted and no projectile leaves its parking place.
C8_ZeroLimitDisablesBalls ==
  config.ballLimit = 0 =>
    /\ game.ballsThrown = 0
    /\ \A k \in DOMAIN game.spheres : game.spheres[k] = ParkedSphere

\* C15: whatever the order of start(), stop(), destroy() and frame
\* callbacks, at most one animation-frame callback is pending; start() on a
\* running background changes nothing; and a stopped background has no
\* callback pending and renders no frame until start() is called again.
C15_OnePendingFrame ==
  /\ [](Cardinality(rafPending) <= 1)
  /\ [](~menu.isRunning => rafPending = {})
  /\ [][/\ MenuStart /\ menu.isRunning => UNCHANGED menuVars
        /\ ~menu.isRunning /\ ~MenuStart =>
             menu'.renders = menu.renders /\ rafPending' = {}]_vars

\* C15 witness: the background was stopped and started again, has rendered
\* three frames and has its one callback pending.
C15_RestartedAndPending ==
  /\ menu.isRunning /\ ~menu.clock.autoStart /\ menu.renders >= 3
  /\ rafPending = {menu.animationId}

C12_CompletesOncePerAttempt ==
  /\ [](hist.completions <= 1)
  /\ [][hist'.completions > hist.completions =>
          /\ LoopStep /\ ~game.levelCompleted /\ game'.levelCompleted
          /\ \E r \in hist'.saved \ hist.saved :
                /\ r.level = game.levelNumber
                /\ r.time = game'.completionTime /\ r.deaths = game'.deathCount
          /\ game.levelNumber \in hist'.marked
          /\ game.levelNumber + 1 \in hist'.unlocked]_vars

\* C12 witness: a second attempt, begun by resetTimer inside the platform
\* box, has completed once and run the other sub-steps of its frame.
C12_SecondAttemptCompleted ==
  /\ pc = "tail" /\ game.levelCompleted
  /\ hist.completions = 1 /\ Cardinality(hist.saved) = 2

\* The starMechanics table of the level configurations (times in ms).
starMechanics(level) ==
  IF level = 2
  THEN [star1Time |-> 180000, star2Time |-> 90000, deathLimit |-> 5]
  ELSE [star1Time |-> 120000, star2Time |-> 60000, deathLimit |-> 5]

\* C13: the stars saved on completion follow the thresholds of the level's
\* own configuration: one for a time under star1Time, one for a time under
\* star2Time, one for fewer deaths than deathLimit.
C13_StarsFromLevelTable ==
  \A r \in hist.saved :
    r.stars = (IF r.time < starMechanics(r.level).star1Time THEN 1 ELSE 0)
                + (IF r.time < starMechanics(r.level).star2Time THEN 1 ELSE 0)
                + (IF r.deaths < starMechanics(r.level).deathLimit THEN 1 ELSE 0)

\* C14: startTime is set, to the current time, by the first frame that ends
\* with a movement input active, and changes again only by resetTimer; every
\* call of completeLevel finds the timer started.
C14_TimerStartsOnFirstMove ==
  [][/\ TailStep /\ moving(game) /\ game.startTime = NULL => game'.startTime = now'
     /\ game'.startTime # game.startTime =>
          \/ TailStep /\ moving(game) /\ game.startTime = NULL
          \/ game' = resetTimer(game)
     /\ hist'.completions > hist.completions => game.startTime # NULL]_vars

\* C16: after destroy() has returned no callback of the game runs: the
\* instance is not written again and no exception is raised.
C16_NothingRunsAfterDestroy ==
  [][~listening => game' = game /\ hist'.threw = hist.threw]_vars

\* The projectiles of a sub-step as spheresCollisions finds them.
integratedSpheres ==
  updateSpheresFrom(updatePlayer(joystickControls(controls(game, deltaTime), deltaTime),
                                 world, deltaTime),
                    world, 1, deltaTime).spheres

\* The pairs of slots, in the order of the loops, with an unthrown member.
IdlePairs ==
  {p \in (DOMAIN game.spheres) \X (DOMAIN game.spheres) :
     p[1] < p[2] /\ (hist.throws[p[1]] = 0 \/ hist.throws[p[2]] = 0)}

\* C17 (as amended): in every sub-step an unthrown projectile passes the
\* overlap test with every other unthrown projectile, which lies at the same
\* point, and with no thrown one; resolving a pair with an unthrown member
\* changes nothing; an unthrown projectile spawns no shockwave and is never
\* marked as exploded.
C17_IdleProjectilesInert ==
  [][LoopStep /\ game.useBalls =>
       /\ \A p \in IdlePairs :
            /\ overlapping(integratedSpheres[p[1]], integratedSpheres[p[2]])
                 <=> (hist.throws[p[1]] = 0 /\ hist.throws[p[2]] = 0)
            /\ collidePair(integratedSpheres, p[1], p[2]) = integratedSpheres
       /\ \A k \in DOMAIN game.spheres :
            hist.throws[k] = 0 =>
              /\ game'.spheres[k] = integratedSpheres[k]
              /\ hist'.spawned[k] = 0 /\ ~game'.spheres[k].hasExploded]_vars

\* C17 witness: sub-steps have run with one projectile thrown and another
\* still unthrown, which has left its parking place.
C17_ThrownBesideIdle ==
  /\ pc = "loop" /\ stepI >= 1
  /\ \E i, j \in DOMAIN game.spheres :
        /\ hist.throws[i] = 1 /\ hist.throws[j] = 0 /\ hist.contacts[i] >= 1
        /\ game.spheres[j].center # ParkedSphere.center

\* C17 as stated: the overlap test is false for every pair with an unthrown
\* member, two unthrown projectiles included.
C17_IdleNeverOverlaps ==
  [][LoopStep /\ game.useBalls =>
       \A p \in IdlePairs :
          ~overlapping(integratedSpheres[p[1]], integratedSpheres[p[2]])]_vars

\* C18: every sub-step applies the input to the player velocity, integrates
\* and collides the player, integrates and collides the projectiles,
\* resolves the sphere pairs and then advances the shockwaves by its dt.
C18_SubStepOrder ==
  [][LoopStep =>
       LET g1 == updatePlayer(joystickControls(controls(game, deltaTime), deltaTime),
                              world, deltaTime)
           g2 == IF g1.useBalls THEN updateSpheres(g1, world, deltaTime) ELSE g1
           g3 == updateShockwaves(g2, deltaTime)
       IN  game' = checkPlatformCollision(teleportPlayerIfOob(g3, config), now)]_vars

OverlappingPairs ==
  {p \in (DOMAIN game.spheres) \X (DOMAIN game.spheres) :
     p[1] < p[2] /\ overlapping(integratedSpheres[p[1]], integratedSpheres[p[2]])}

\* C20: resolving an overlapping pair gives each sphere the other's velocity
\* component along the normal, changes no velocity across the normal, and
\* keeps the sum of the two velocities.
C20_NormalExchange ==
  [][LoopStep /\ game.useBalls =>
       \A p \in OverlappingPairs :
          LET a == integratedSpheres[p[1]]
              b == integratedSpheres[p[2]]
              n == normalize(VSub(a.center, b.center))
              rr == collidePair(integratedSpheres, p[1], p[2])
          IN  /\ Dot(n, rr[p[1]].velocity) = Dot(n, b.velocity)
              /\ Dot(n, rr[p[2]].velocity) = Dot(n, a.velocity)
              /\ Cross(n, VSub(rr[p[1]].velocity, a.velocity)) = Zero3
              /\ Cross(n, VSub(rr[p[2]].velocity, b.velocity)) = Zero3
              /\ VAdd(rr[p[1]].velocity, rr[p[2]].velocity) = VAdd(a.velocity, b.velocity)
              /\ Len(game.spheres) = 2 => game'.spheres = rr]_vars

\* C20 witness: two thrown projectiles of different velocity have overlapped
\* and been resolved.
C20_ThrownPairResolved ==
  /\ pc = "loop" /\ hist.resolved >= 1
  /\ \E i, j \in DOMAIN game.spheres :
        /\ i < j /\ hist.throws[i] = 1 /\ hist.throws[j] = 1
        /\ game.spheres[i].velocity # game.spheres[j].velocity

\* C21 (as amended): resolving an overlapping pair moves the two centres by
\* the same amount in opposite directions along the normal; if the centres
\* differ they end at the summed radii from each other (to within the
\* length unit of the model), and if they coincide neither moves.
C21_SymmetricSeparation ==
  [][LoopStep /\ game.useBalls =>
       \A p \in OverlappingPairs :
          LET a == integratedSpheres[p[1]]
              b == integratedSpheres[p[2]]
              r == a.radius + b.radius
              n == normalize(VSub(a.center, b.center))
              rr == collidePair(integratedSpheres, p[1], p[2])
              after == distanceToSquared(rr[p[1]].center, rr[p[2]].center)
          IN  /\ VAdd(rr[p[1]].center, rr[p[2]].center) = VAdd(a.center, b.center)
              /\ Cross(n, VSub(rr[p[1]].center, a.center)) = Zero3
              /\ IF a.center = b.center
                 THEN rr[p[1]].center = a.center /\ rr[p[2]].center = b.center
                 ELSE after >= (r - 1) * (r - 1) /\ after <= r * r]_vars

\* C21 witness: two thrown projectiles have overlapped and now lie at the
\* summed radii from each other.
C21_ThrownPairSeparated ==
  /\ pc = "loop" /\ hist.resolved >= 1
  /\ \E i, j \in DOMAIN game.spheres :
        /\ i < j /\ hist.throws[i] = 1 /\ hist.throws[j] = 1
        /\ distanceToSquared(game.spheres[i].center, game.spheres[j].center)
             \in 6241..6400

\* C21 as stated: every overlapping pair ends at the summed radii or more.
C21_AlwaysSeparated ==
  [][LoopStep /\ game.useBalls =>
       \A p \in OverlappingPairs :
          LET r == integratedSpheres[p[1]].radius + integratedSpheres[p[2]].radius
              rr == collidePair(integratedSpheres, p[1], p[2])
          IN  distanceToSquared(rr[p[1]].center, rr[p[2]].center) >= (r - 1) * (r - 1)]_vars

\* C22: a pair of colliders with coincident centres has a zero normal and its
\* response changes nothing: spheresCollisions leaves both spheres of such a
\* pair as they were, and a player probe that coincides with a sphere centre
\* leaves the player velocity and the sphere as they were; every component
\* stays a number.
C22_CoincidentIsSkipped ==
  [][LoopStep /\ game.useBalls =>
       /\ \A p \in OverlappingPairs :
             integratedSpheres[p[1]].center = integratedSpheres[p[2]].center
               => collidePair(integratedSpheres, p[1], p[2]) = integratedSpheres
       /\ \A k \in DOMAIN game.spheres :
             \A point \in {game.playerCollider.start, game.playerCollider.end,
                           capsuleCenter(game.playerCollider)} :
                LET g == [game EXCEPT !.spheres[k].center = point]
                    q == probeSphere([g |-> g, vector1 |-> point], k, point).g
                IN  /\ q = g
                    /\ \A c \in 1..3 : q.playerVelocity[c] \in Int
                                       /\ q.spheres[k].velocity[c] \in Int
                                       /\ q.spheres[k].center[c] \in Int]_vars

\* C22 witness: two projectiles with one centre are falling together while
\* the player moves.
C22_CoincidentMovingPair ==
  /\ pc = "loop" /\ game.playerVelocity # Zero3
  /\ \E i, j \in DOMAIN game.spheres :
        /\ i < j
        /\ game.spheres[i].center = game.spheres[j].center
        /\ game.spheres[i].velocity # Zero3

\* A level with one more ball, all thrown down at the player's feet.
PileConfigs ==
  [gravity : {0}, ballLimit : {BallLimit + 1}, useBalls : {"true"}, levelNumber : {0},
   playerLookAt : {<<-1, 0>>}]

SpecPile == InitWith(PileConfigs, {FloorWorld}) /\ [][NextFlight]_vars

\* The orders in which the slots of the pool can be visited.
SlotOrders ==
  {f \in [DOMAIN game.spheres -> DOMAIN game.spheres] :
     \A i, j \in DOMAIN game.spheres : f[i] = f[j] => i = j}

\* spheresCollisions on the pool visited in the order f, slot by slot.
collideInOrder(ss, f) ==
  LET out == collideFrom([i \in DOMAIN ss |-> ss[f[i]]], 1)
  IN  [k \in DOMAIN ss |-> out[CHOOSE i \in DOMAIN ss : f[i] = k]]

\* C23 as stated: the outcome of spheresCollisions is the same, up to
\* rounding (a centimetre, a centimetre per second), whatever the order in
\* which the pool is visited.
C23_OrderIndependent ==
  [][LoopStep /\ game.useBalls =>
       \A f \in SlotOrders :
          LET a == collideFrom(integratedSpheres, 1)
              b == collideInOrder(integratedSpheres, f)
          IN  \A k \in DOMAIN a, c \in 1..3 :
                 /\ Abs(a[k].center[c] - b[k].center[c]) <= 2
                 /\ Abs(a[k].velocity[c] - b[k].velocity[c]) <= 2]_vars

\* The life of the shockwaves of two balls, thrown at the player's feet or
\* straight ahead: frames come every 60 ms, 40 ms apart and 20 ms long; the
\* first ball is thrown before the first frame and the second between two
\* later frames, each with a short touch of the throw button when a throw
\* is due.
ShockConfigs ==
  [gravity : {0}, ballLimit : {BallLimit}, useBalls : {"true"}, levelNumber : {0},
   playerLookAt : {<<-1, 0>>, <<0, 0>>}]

NextShock ==
  \/ game.clock.oldTime = now /\ throwHoldTimer = "null" /\ \E d \in Deltas : Tick(d, ShockNow)
  \/ /\ game.clock.oldTime # now /\ throwHoldTimer = "null"
     /\ ~throwRejected(game)
     /\ game.ballsThrown = 0 => hist.frameAt = NULL
     /\ TouchStartThrow
  \/ throwHoldTimer = "pending" /\ TouchEndThrow
  \/ game.clock.oldTime # now /\ AnimateStart
  \/ SubStep
  \/ \E c \in FrameCosts : AnimateTail(c, ShockNow)

SpecShock == InitWith(ShockConfigs, {FloorWorld}) /\ [][NextShock]_vars

\* C24: the list after updateShockwaves is the list before it with every
\* life lowered once by 12 dt, without the entries whose life is then 0 or
\* less, in the same order and with the origins they had; every remaining
\* life lies in (0, 1].
C24_ShockwaveListUpdate ==
  [][TailStep /\ ~tailThrows(game) =>
       LET before == game.shockwaves
           after == updateShockwaves(game, deltaTime).shockwaves
           decayed == [i \in DOMAIN before |->
                         [before[i] EXCEPT
                            !.life = @ - (deltaTime * ShockwaveRate),
                            !.ringRadius = ringRadiusOf(before[i].life
                                                          - (deltaTime * ShockwaveRate))]]
       IN  /\ game'.shockwaves = after
           /\ after = SelectSeq(decayed, LAMBDA s : s.life > 0)
           /\ \A i \in DOMAIN after :
                 /\ after[i].life \in 1..1000000
                 /\ \E j \in DOMAIN before :
                       /\ before[j].position = after[i].position
                       /\ before[j].by = after[i].by]_vars

\* C24 witness: the shockwave of one projectile has been removed while the
\* decaying shockwave of another is still in the list.
C24_RemovedBesideDecaying ==
  /\ pc = "idle"
  /\ \E k \in DOMAIN hist.spawned :
        /\ hist.spawned[k] >= 1
        /\ \A i \in DOMAIN game.shockwaves : game.shockwaves[i].by # k
  /\ \E i \in DOMAIN game.shockwaves : game.shockwaves[i].life < 1000000

\* C25 as stated: a call of updateShockwaves sets the player's vertical
\* velocity to the launch value if the horizontal distance from the player to
\* the origin of some shockwave lies in the band (r - 1, r) of its decayed
\* life, and leaves the player velocity alone if not; a sub-step, in which
\* shockwaves are created, leaves the player velocity as updatePlayer set it.
C25_LaunchIffHorizontalBand ==
  [][/\ TailStep /\ ~tailThrows(game) =>
          LET end == game.playerCollider.end
              horizontal2(s) == (end[1] - s.position[1]) * (end[1] - s.position[1])
                                  + (end[3] - s.position[3]) * (end[3] - s.position[3])
              hit == \E i \in DOMAIN game.shockwaves :
                        inBand(horizontal2(game.shockwaves[i]),
                               ringRadiusOf(game.shockwaves[i].life
                                              - (deltaTime * ShockwaveRate)))
          IN  IF hit THEN game'.playerVelocity[2] = ShockwaveLaunchSpeed
                     ELSE game'.playerVelocity = game.playerVelocity
      /\ LoopStep =>
          game'.playerVelocity =
            updatePlayer(joystickControls(controls(game, deltaTime), deltaTime),
                         world, deltaTime).playerVelocity]_vars

\* Throws whose input is pressed at the start of the session (wall time 1)
\* and released at any later time.
NextHold ==
  \/ \E d \in Deltas : Tick(d, MaxNow)
  \/ now = 1 /\ MouseDown
  \/ now = 1 /\ TouchStartThrow
  \/ MouseUp
  \/ TouchEndThrow
  \/ AnimateStart
  \/ SubStep
  \/ \E c \in FrameCosts : AnimateTail(c, MaxNow)

SpecHold == Init /\ [][NextHold]_vars

\* C26 as stated: an accepted throw gives the ball the impulse of the time
\* for which the throw input was held (here: since wall time 1), along the
\* view direction, plus twice the player velocity.
C26_HoldIsPressToRelease ==
  [][game'.ballsThrown = game.ballsThrown + 1 =>
       game'.spheres[game.sphereIdx + 1].velocity =
         VAdd(VQuo(VScale(getWorldDirection(game.camera.rotation), impulse(1, now)), 1000),
              VScale(game.playerVelocity, 2))]_vars

\* C27: in every state of a Game instance ballsThrown lies in
\* 0..NUM_SPHERES, sphereIdx lies in 0..NUM_SPHERES-1 and equals ballsThrown
\* modulo NUM_SPHERES, the remaining count NUM_SPHERES - ballsThrown is not
\* negative and no slot of the pool has been thrown twice.
C27_CountersInRange ==
  /\ game.ballsThrown \in 0..game.NUM_SPHERES
  /\ game.sphereIdx \in 0..(game.NUM_SPHERES - 1)
  /\ game.sphereIdx = game.ballsThrown % game.NUM_SPHERES
  /\ game.NUM_SPHERES - game.ballsThrown >= 0
  /\ \A k \in DOMAIN hist.throws : hist.throws[k] <= 1

\* C27 witness: every ball has been thrown, the cooldown has run out and a
\* further throw input has just arrived.
C27_InputAfterLastBall ==
  /\ game.useBalls /\ game.ballsThrown = game.NUM_SPHERES /\ game.sphereIdx = 0
  /\ game.throwTimer = 0 /\ game.mouseTime = now

\* C28 as stated: when the hold timeout of the touch throw button has fired
\* and thrown, the touchend of the same touch throws no ball.
C28_OneThrowPerTouch ==
  [][throwHoldTimer = "fired" /\ throwHoldTimer' = "null" =>
       game'.ballsThrown = game.ballsThrown]_vars

\* A walk over the floor of a level without balls, with pauses: the
\* forward key goes down before the first frame and stays down.
NextWalk ==
  \/ \E d \in Deltas : Tick(d, FlightNow)
  \/ hist.frameAt = NULL /\ KeyDown("KeyW")
  \/ Pause
  \/ Resume
  \/ AnimateStart
  \/ SubStep
  \/ \E c \in FrameCosts : AnimateTail(c, FlightNow)

SpecWalk == InitWith(RunConfigs, {FloorWorld}) /\ [][NextWalk]_vars

\* C29 as stated: while the walking sound is loaded, after every frame the
\* flag isWalkingSoundPlaying tells whether the audio element is playing.
C29_FlagIsAudioAfterFrame ==
  [][TailStep /\ game'.walkingSound.loaded =>
       (game'.isWalkingSoundPlaying <=> game'.walkingSound.playing)]_vars

\* C30 (as amended): while the timer runs and the level is not completed,
\* pausedTime plus the pause in progress is the wall time spent paused since
\* the timer started, so that the elapsed time of a running game is the wall
\* time since startTime minus the paused time and is not negative; the
\* completion time is that elapsed time at the completing sub-step, and once
\* the level is completed completionTime and pausedTime no longer change.
C30_PausedTimeAccounting ==
  /\ [](Truthy(game.startTime) /\ ~game.levelCompleted =>
          /\ game.pausedTime
               + (IF Truthy(game.pauseStartTime) THEN now - game.pauseStartTime ELSE 0)
               = hist.pausedWall
          /\ ~game.isPaused =>
                /\ elapsedTimeOf(game, now) = now - game.startTime - hist.pausedWall
                /\ elapsedTimeOf(game, now) >= 0)
  /\ [][/\ ~game.levelCompleted /\ game'.levelCompleted /\ Truthy(game.startTime) =>
             /\ game'.completionTime = now - game.startTime - hist.pausedWall
             /\ game'.completionTime >= 0
        /\ game.levelCompleted /\ game'.levelCompleted =>
             /\ game'.completionTime = game.completionTime
             /\ game'.pausedTime = game.pausedTime]_vars

\* C30 witness: the level has been completed in a run that was paused for a
\* while and resumed, and the game has been resumed after the completion.
C30_CompletedAfterPause ==
  /\ game.levelCompleted /\ Truthy(game.startTime) /\ ~game.isPaused
  /\ game.pausedTime > 0
  /\ game.completionTime = hist.frameAt - game.startTime - game.pausedTime

\* C30 as stated: whenever the game is not paused, pausedTime is the whole
\* wall time spent paused since the timer started.
C30_PausedTimeIsAllPausedWall ==
  Truthy(game.startTime) /\ ~game.isPaused => game.pausedTime = hist.pausedWall

====
